---- MODULE Spec2Model ----
(***************************************************************************)
(* FsdUnsignedIntegerKeyMap and its KeyMapIterator (src/src/blue/fsd.c).   *)
(*                                                                         *)
(* A keymap borrows the bytes of a Python string: a 4-byte prefix followed *)
(* by 12-byte records (key, value1, value2).  Lookups run bsearch() over   *)
(* the borrowed bytes, iterators walk them record by record.               *)
(*                                                                         *)
(* Number representation.  A 32-bit word is the pair <<hi, lo>> of its     *)
(* 16-bit halves, so that unsigned 32-bit arithmetic keeps its width.  A   *)
(* Python integer is <<top, hi, lo>> = top * 2^32 + hi * 2^16 + lo.  A C   *)
(* int is an ordinary integer in -2^31 .. 2^31-1.                          *)
(***************************************************************************)
EXTENDS Integers, Sequences, FiniteSets, TLC

VARIABLES
    longBits,   \* width of the C long of the build (32 or 64)
    km,         \* the PyKeyMapObject: ob_refcnt, km_data, km_length, km_ref
    strRefs,    \* per string object: references the keymap acquired on it
    iters,      \* the PyKeyMapIteratorObjects
    ret,        \* the last call and what it returned
    crashed     \* the process died on an out-of-bounds read

vars == <<longBits, km, strRefs, iters, ret, crashed>>

-----------------------------------------------------------------------------
(* Bounds of the exploration *)

\* successful Initialize calls on the keymap
MaxInit == 2
\* iterators alive at the same time
NumIters == 1

-----------------------------------------------------------------------------
(* 32-bit words *)

Half == 65536

\* uint32_t a - b, modulo 2^32
Sub32(a, b) ==
    LET lo     == a[2] - b[2]
        borrow == IF lo < 0 THEN 1 ELSE 0
        hi     == a[1] - b[1] - borrow
    IN  << hi % Half, lo % Half >>

\* conversion of a uint32_t to int (two's complement)
ToInt32(u) ==
    IF u[1] >= 32768 THEN (u[1] - Half) * Half + u[2] ELSE u[1] * Half + u[2]

\* the bit pattern of an int
FromInt32(n) == << (n \div Half) % Half, n % Half >>

\* unsigned order of two words
Lt32(a, b) == a[1] < b[1] \/ (a[1] = b[1] /\ a[2] < b[2])

\* Python integers made from C values
PyFromU32(u) == << 0, u[1], u[2] >>
PyFromInt(n) == << IF n < 0 THEN -1 ELSE 0, FromInt32(n)[1], FromInt32(n)[2] >>

PyZero == << 0, 0, 0 >>
PyMinusOne == << -1, 65535, 65535 >>

\* Python objects passed as arguments
PyInt(top, hi, lo) == [t |-> "int", v |-> << top, hi, lo >>]
PyStr == [t |-> "str", v |-> PyZero]

\* PyInt_Check(o) || PyLong_Check(o)
IsInteger(o) == o.t = "int"

\* does a Python integer fit the C long of the build
FitsLong(v, bits) ==
    IF bits = 32
    THEN (v[1] = 0 /\ v[2] < 32768) \/ (v[1] = -1 /\ v[2] >= 32768)
    ELSE v[1] >= -32768 /\ v[1] < 32768

\* PyInt_AsLong: the value as a C long, or -1 with the error indicator set
PyInt_AsLong(o, bits) ==
    IF IsInteger(o) /\ FitsLong(o.v, bits)
    THEN [val |-> o.v, err |-> FALSE]
    ELSE [val |-> PyMinusOne, err |-> TRUE]

\* assignment of a C long to a uint32_t / to an int
LongToU32(v) == << v[2], v[3] >>
LongToInt(v) == ToInt32(<< v[2], v[3] >>)

-----------------------------------------------------------------------------
(* String objects and the bytes they hold *)

LE32(u) == << u[2] % 256, u[2] \div 256, u[1] % 256, u[1] \div 256 >>
W(n) == << 0, n >>
Rec(k, v1, v2) == LE32(k) \o LE32(v1) \o LE32(v2)
Zeros(n) == [i \in 1..n |-> 0]

Strings == <<
    \* 1: two records (1,10,20) (5,30,40)
    LE32(W(2)) \o Rec(W(1), W(10), W(20)) \o Rec(W(5), W(30), W(40)),
    \* 2: two records whose keys lie on both sides of 2^31
    LE32(W(2)) \o Rec(W(0), W(1), W(2)) \o Rec(<<32768, 1>>, W(3), W(4)),
    \* 3: prefix 100 followed by 20 bytes; the 20 bytes are a prefix 3
    \*    followed by one record (2,21,22) and four more bytes
    LE32(W(100)) \o LE32(W(3)) \o Rec(W(2), W(21), W(22)) \o Zeros(4),
    \* 4: two bytes
    << 97, 98 >>,
    \* 5: prefix -1, then at offset 4 a table of one record (7,70,71)
    LE32(<<65535, 65535>>) \o LE32(W(1)) \o Rec(W(7), W(70), W(71))
>>

StrIds == 1..Len(Strings)

\* the (string, offset) arguments Initialize is tried with
InitArgs == { << 1, 0 >>, << 1, 26 >>, << 2, 0 >>, << 2, 4 >>, << 3, 0 >>,
              << 3, 4 >>, << 4, 0 >>, << 4, -4 >>, << 5, 0 >>, << 5, 4 >> }

\* bytes the process finds outside a string object
StrayBytes == {0, 255}

NULL == 0

\* data[pos] for a pointer into string object s; outside the object the
\* read is undefined and yields whatever byte lies there
ReadByte(s, pos, stray) ==
    IF s # NULL /\ pos >= 0 /\ pos < Len(Strings[s]) THEN Strings[s][pos + 1]
    ELSE stray

\* the n bytes at pos lie inside string s
InBounds(s, pos, n) == s # NULL /\ pos >= 0 /\ pos + n <= Len(Strings[s])

\* *(uint32_t *)&data[pos] on a little-endian machine
ReadU32(s, pos, stray) ==
    << ReadByte(s, pos + 3, stray) * 256 + ReadByte(s, pos + 2, stray),
       ReadByte(s, pos + 1, stray) * 256 + ReadByte(s, pos, stray) >>

\* *(int32_t *)&data[pos]
ReadInt32(s, pos, stray) == ToInt32(ReadU32(s, pos, stray))

-----------------------------------------------------------------------------
(* keymap_entry: 12 bytes, key first *)

EntrySize == 12

\* byte offsets of the members of struct keymap_entry
keymap_entry == [key |-> 0, value1 |-> 4, value2 |-> 8]

\* km_data[i] of a keymap whose km_data points at byte pos of string s
EntryAt(s, pos, i, stray) ==
    [key    |-> ReadU32(s, pos + EntrySize * i + keymap_entry.key, stray),
     value1 |-> ReadU32(s, pos + EntrySize * i + keymap_entry.value1, stray),
     value2 |-> ReadU32(s, pos + EntrySize * i + keymap_entry.value2, stray)]

EntryInBounds(s, pos, i) == InBounds(s, pos + EntrySize * i, EntrySize)

-----------------------------------------------------------------------------
(* Return values *)

RetVal(tag, msg, x, y, z, pend) ==
    [tag |-> tag, msg |-> msg, x |-> x, y |-> y, z |-> z, pend |-> pend]

Py_None(pend)        == RetVal("None", "", PyZero, PyZero, PyZero, pend)
PyLong(x)            == RetVal("int", "", x, PyZero, PyZero, FALSE)
PyPair(x, y, pend)   == RetVal("pair", "", x, y, PyZero, pend)
PyItem(x, y, z)      == RetVal("item", "", x, y, z, FALSE)
PyIterator(i, pend)  == RetVal("iter", "", << 0, 0, i >>, PyZero, PyZero, pend)
ValueError(msg, x)   == RetVal("ValueError", msg, x, PyZero, PyZero, FALSE)
KeyError(x)          == RetVal("KeyError", "%d", x, PyZero, PyZero, FALSE)
RuntimeError(x)      == RetVal("RuntimeError", "Invalid mode for KeyMapIterator: %d",
                               x, PyZero, PyZero, FALSE)
StopIteration        == RetVal("StopIteration", "", PyZero, PyZero, PyZero, FALSE)
Segfault             == RetVal("SIGSEGV", "", PyZero, PyZero, PyZero, FALSE)

Call(op, key, it, s, off, val) ==
    [op |-> op, key |-> key, it |-> it, s |-> s, off |-> off, val |-> val]

-----------------------------------------------------------------------------
(* Objects *)

IterIds == 1..NumIters

\* an iterator slot not in use; PyType_GenericAlloc zeroes a new object
NoIter == [alive |-> FALSE, kmi_mode |-> 0, kmi_index |-> 0,
           yielded |-> 0, arg |-> PyZero]

\* arguments the calls are tried with
KeyArgs == { PyInt(0, 0, 0), PyInt(0, 0, 1), PyInt(0, 0, 3),
             PyInt(0, 32768, 0), PyInt(0, 32768, 1),
             PyInt(-1, 65535, 65535), PyInt(1, 0, 1), PyStr }

ModeArgs == { PyInt(-1, 65535, 65535), PyInt(0, 0, 3), PyInt(0, 0, 4),
              PyInt(0, 0, 5), PyInt(1, 0, 1) }

\* keymap_new: tp_alloc gives a zeroed object holding the caller's reference
keymap_new ==
    [alive |-> TRUE, owned |-> TRUE, ob_refcnt |-> 1,
     km_data |-> NULL, km_pos |-> 0, km_length |-> 0, km_ref |-> NULL]

Init ==
    /\ longBits \in {32, 64}
    /\ km = keymap_new
    /\ strRefs = [s \in StrIds |-> 0]
    /\ iters = [i \in IterIds |-> NoIter]
    /\ ret = Call("new", PyStr, 0, 0, 0, Py_None(FALSE))
    /\ crashed = FALSE

\* the references the keymap has acquired and not released
RECURSIVE SumRefs(_, _)
SumRefs(refs, n) == IF n = 0 THEN 0 ELSE refs[n] + SumRefs(refs, n - 1)

Acquired(refs) == SumRefs(refs, Len(Strings))

\* Py_XDECREF(self->km_ref) of keymap_dealloc
keymap_dealloc(refs, k) ==
    IF k.km_ref = NULL THEN refs ELSE [refs EXCEPT ![k.km_ref] = @ - 1]

\* Py_DECREF(keymap): the object is deallocated when the count reaches zero
DecRefKeymap(owned) ==
    /\ km' = [km EXCEPT !.ob_refcnt = @ - 1, !.owned = owned,
                        !.alive = (km.ob_refcnt - 1 > 0)]
    /\ strRefs' = IF km.ob_refcnt - 1 = 0 THEN keymap_dealloc(strRefs, km)
                                           ELSE strRefs

Crash(call) ==
    /\ crashed' = TRUE
    /\ ret' = call

-----------------------------------------------------------------------------
(* keymap_initialize *)

Initialize(s, offset) ==
    /\ ~crashed /\ km.owned /\ Acquired(strRefs) < MaxInit
    /\ UNCHANGED << longBits, iters >>
    /\ LET size == Len(Strings[s])
           c(v) == Call("Initialize", PyStr, 0, s, offset, v)
       IN  IF offset > size - 4
           THEN /\ ret' = c(ValueError("Initialize requires a buffer of at least 4 bytes", PyZero))
                /\ UNCHANGED << km, strRefs, crashed >>
           ELSE \E stray \in StrayBytes, fault \in BOOLEAN :
                LET length == ReadInt32(s, offset, stray)
                    rest   == size - (offset + 4)
                    oob    == ~InBounds(s, offset, 4)
                IN  IF ~oob /\ (stray # 0 \/ fault) THEN FALSE
                    ELSE IF fault /\ oob
                    THEN Crash(c(Segfault)) /\ UNCHANGED << km, strRefs >>
                    ELSE IF rest < length
                    THEN /\ ret' = c(ValueError("Not enough data in buffer, expected %d bytes",
                                                PyFromInt(length)))
                         /\ UNCHANGED << km, strRefs, crashed >>
                    ELSE /\ km' = [km EXCEPT !.km_data = s, !.km_pos = offset + 4,
                                             !.km_length = length, !.km_ref = s]
                         /\ strRefs' = [strRefs EXCEPT ![s] = @ + 1]
                         /\ ret' = c(Py_None(FALSE))
                         /\ UNCHANGED crashed

\* the caller drops its reference to the keymap
Release ==
    /\ ~crashed /\ km.owned
    /\ DecRefKeymap(FALSE)
    /\ ret' = Call("del", PyStr, 0, 0, 0, Py_None(FALSE))
    /\ UNCHANGED << longBits, iters, crashed >>

-----------------------------------------------------------------------------
(* Lookup: _keycmp, bsearch, _internal_get *)

\* static int _keycmp(a, b) { return a->key - b->key; }
_keycmp(a, b) == ToInt32(Sub32(a, b))

\* SIZE_MAX, scaled: (size_t)-1 is a count of the form 2^n - 1 that no
\* buffer reaches; bsearch halves it down to the probes 7, 3, 1, 0 all the same
SizeMax == 16 - 1

\* bsearch(&k, base, nmemb, 12, _keycmp) over the half-open range [l, u):
\* the index of the entry found or -1, and whether a probe left the buffer
RECURSIVE bsearch(_, _, _, _, _, _)
bsearch(k, s, pos, l, u, stray) ==
    IF l >= u
    THEN [idx |-> -1, oob |-> FALSE]
    ELSE LET idx  == (l + u) \div 2
             here == ~InBounds(s, pos + EntrySize * idx, 4)
             c    == _keycmp(k, ReadU32(s, pos + EntrySize * idx, stray))
             rest == IF c < 0 THEN bsearch(k, s, pos, l, idx, stray)
                     ELSE IF c > 0 THEN bsearch(k, s, pos, idx + 1, u, stray)
                     ELSE [idx |-> idx, oob |-> FALSE]
         IN  [idx |-> rest.idx, oob |-> here \/ rest.oob]

\* the conversion of km_length to the size_t parameter of bsearch
nmemb(length) == IF length < 0 THEN SizeMax + 1 + length ELSE length

_internal_get(op, key, raise) ==
    /\ ~crashed /\ km.owned
    /\ UNCHANGED << longBits, km, strRefs, iters >>
    /\ LET c(v) == Call(op, key, 0, 0, 0, v)
       IN  IF ~IsInteger(key)
           THEN /\ ret' = c(ValueError("get called with non-integer key", PyZero))
                /\ UNCHANGED crashed
           ELSE \E stray \in StrayBytes, fault \in BOOLEAN :
                LET r     == PyInt_AsLong(key, longBits)
                    k     == LongToU32(r.val)
                    found == bsearch(k, km.km_data, km.km_pos, 0,
                                     nmemb(km.km_length), stray)
                    entry == EntryAt(km.km_data, km.km_pos, found.idx, stray)
                    oob   == found.oob \/
                             (found.idx >= 0 /\
                              ~InBounds(km.km_data, km.km_pos + EntrySize * found.idx + 4, 8))
                IN  IF ~oob /\ (stray # 0 \/ fault) THEN FALSE
                    ELSE IF fault /\ oob
                    THEN Crash(c(Segfault))
                    ELSE /\ UNCHANGED crashed
                         /\ ret' = IF found.idx < 0
                                   THEN IF raise THEN c(KeyError(PyFromInt(ToInt32(k))))
                                                 ELSE c(Py_None(r.err))
                                   ELSE c(PyPair(PyFromU32(entry.value1),
                                                 PyFromU32(entry.value2), r.err))

keymap_get(key) == _internal_get("Get", key, FALSE)

keymap_mp_subscript(key) == _internal_get("subscript", key, TRUE)

\* keymap_obj_length returns int but is called as a lenfunc returning
\* Py_ssize_t: the upper half of the result is whatever the ABI leaves there
keymap_obj_length ==
    /\ ~crashed /\ km.owned
    /\ UNCHANGED << longBits, km, strRefs, iters, crashed >>
    /\ \E ext \in {"sign", "zero"} :
          ret' = Call("len", PyStr, 0, 0, 0,
                      PyLong(IF ext = "sign" THEN PyFromInt(km.km_length)
                                             ELSE PyFromU32(FromInt32(km.km_length))))

-----------------------------------------------------------------------------
(* Iterators: _iter, keymapiter_next, keymapiter_dealloc *)

_iter(op, mode, arg, pend) ==
    /\ ~crashed /\ km.owned
    /\ \E i \in IterIds :
          /\ ~iters[i].alive
          /\ \A j \in IterIds : j < i => iters[j].alive
          /\ iters' = [iters EXCEPT ![i] = [alive |-> TRUE, kmi_mode |-> mode,
                                            kmi_index |-> 0, yielded |-> 0,
                                            arg |-> arg]]
          /\ ret' = Call(op, PyInt(arg[1], arg[2], arg[3]), i, 0, 0, PyIterator(i, pend))
    /\ km' = [km EXCEPT !.ob_refcnt = @ + 1]
    /\ UNCHANGED << longBits, strRefs, crashed >>

keymap_iterkeys   == _iter("iterkeys", 0, << 0, 0, 0 >>, FALSE)
keymap_itervalues == _iter("itervalues", 1, << 0, 0, 1 >>, FALSE)
keymap_iteritems  == _iter("iteritems", 2, << 0, 0, 2 >>, FALSE)

\* tp_iter of the keymap type is keymap_iterkeys
keymap_tp_iter    == _iter("iter", 0, << 0, 0, 0 >>, FALSE)

keymap_iterspecial(pymode) ==
    LET r == PyInt_AsLong(pymode, longBits)
    IN  _iter("_iterspecial", LongToInt(r.val), pymode.v, r.err)

Exhausted_off_by_one(index, length) == index < 0 \/ index > length

\* the first test of keymapiter_next
Exhausted(index, length) == index < 0 \/ index >= length

\* the bytes of the entry that each mode reads: offset and count
FieldsRead(mode) ==
    CASE mode = 0 -> << 0, 4 >>
      [] mode = 1 -> << 4, 8 >>
      [] mode = 2 -> << 0, 12 >>
      [] mode = 3 -> << 4, 4 >>
      [] mode = 4 -> << 0, 8 >>
      [] OTHER    -> << 0, 0 >>

\* the switch of keymapiter_next
Projection(mode, entry) ==
    CASE mode = 0 -> PyLong(PyFromU32(entry.key))
      [] mode = 1 -> PyPair(PyFromU32(entry.value1), PyFromU32(entry.value2), FALSE)
      [] mode = 2 -> PyItem(PyFromU32(entry.key), PyFromU32(entry.value1),
                            PyFromU32(entry.value2))
      [] mode = 3 -> PyLong(PyFromU32(entry.value1))
      [] mode = 4 -> PyPair(PyFromU32(entry.key), PyFromU32(entry.value1), FALSE)
      [] OTHER    -> RuntimeError(PyFromInt(mode))

keymapiter_next(i) ==
    /\ ~crashed /\ iters[i].alive
    /\ UNCHANGED << longBits, km, strRefs >>
    /\ LET self == iters[i]
           c(v) == Call("next", PyStr, i, 0, 0, v)
       IN  IF Exhausted(self.kmi_index, km.km_length)
           THEN /\ ret' = c(StopIteration)
                /\ UNCHANGED << iters, crashed >>
           ELSE \E stray \in StrayBytes, fault \in BOOLEAN :
                LET entry == EntryAt(km.km_data, km.km_pos, self.kmi_index, stray)
                    f     == FieldsRead(self.kmi_mode)
                    oob   == f[2] > 0 /\
                             ~InBounds(km.km_data,
                                       km.km_pos + EntrySize * self.kmi_index + f[1], f[2])
                    v     == Projection(self.kmi_mode, entry)
                IN  IF ~oob /\ (stray # 0 \/ fault) THEN FALSE
                    ELSE IF fault /\ oob
                    THEN Crash(c(Segfault)) /\ UNCHANGED iters
                    ELSE /\ iters' = [iters EXCEPT
                                ![i].kmi_index = @ + 1,
                                ![i].yielded = IF v.tag = "RuntimeError" THEN @ ELSE @ + 1]
                         /\ ret' = c(v)
                         /\ UNCHANGED crashed

keymapiter_dealloc(i) ==
    /\ ~crashed /\ iters[i].alive
    /\ iters' = [iters EXCEPT ![i] = NoIter]
    /\ DecRefKeymap(km.owned)
    /\ ret' = Call("del", PyStr, i, 0, 0, Py_None(FALSE))
    /\ UNCHANGED << longBits, crashed >>

Next ==
    \/ \E a \in InitArgs : Initialize(a[1], a[2])
    \/ \E key \in KeyArgs : keymap_get(key)
    \/ \E key \in KeyArgs : keymap_mp_subscript(key)
    \/ keymap_obj_length
    \/ keymap_iterkeys
    \/ keymap_itervalues
    \/ keymap_iteritems
    \/ keymap_tp_iter
    \/ \E pymode \in ModeArgs : keymap_iterspecial(pymode)
    \/ \E i \in IterIds : keymapiter_next(i)
    \/ \E i \in IterIds : keymapiter_dealloc(i)
    \/ Release

Spec == Init /\ [][Next]_vars

\* The operations that write the keymap or an iterator.  Get, the subscript
\* lookup and len() only read them (LookupsReadOnly below), so what the
\* iterators can do under Spec they can do under SpecIter.
NextIter ==
    \/ \E a \in InitArgs : Initialize(a[1], a[2])
    \/ keymap_iterkeys
    \/ keymap_itervalues
    \/ keymap_iteritems
    \/ keymap_tp_iter
    \/ \E pymode \in ModeArgs : keymap_iterspecial(pymode)
    \/ \E i \in IterIds : keymapiter_next(i)
    \/ \E i \in IterIds : keymapiter_dealloc(i)
    \/ Release

SpecIter == Init /\ [][NextIter]_vars

-----------------------------------------------------------------------------
(* Vocabulary of the properties *)

Initialized == km.km_ref # NULL

\* record i of the table, as stored
Record(i) == EntryAt(km.km_data, km.km_pos, i, 0)

RecordIds == 0 .. km.km_length - 1

\* the table's records all lie inside the string it borrows
RecordsPresent ==
    /\ Initialized
    /\ km.km_length >= 0
    /\ \A i \in RecordIds : EntryInBounds(km.km_data, km.km_pos, i)

\* ascending unsigned 32-bit keys, all different
SortedUnique ==
    \A i, j \in RecordIds : i < j => Lt32(Record(i).key, Record(j).key)

IsLookup == ret.op \in {"Get", "subscript"}

\* the lookup key is an integer in 0 .. 2^32 - 1
KeyInRange == IsInteger(ret.key) /\ ret.key.v[1] = 0

KeyWord == << ret.key.v[2], ret.key.v[3] >>

ValidModes == 0..4

\* Get, the subscript lookup and len() change neither the keymap, nor the
\* references it holds, nor any iterator
LookupsReadOnly ==
    [][ ret'.op \in {"Get", "subscript", "len"} =>
          UNCHANGED << km, strRefs, iters >> ]_vars

\* C1: in a table initialized from sorted, unique records, Get and the
\* subscript lookup of the key of record i return (value1_i, value2_i), for
\* all unsigned 32-bit keys.
C1_LookupFindsEveryRecord ==
    (IsLookup /\ RecordsPresent /\ SortedUnique /\ KeyInRange) =>
        \A i \in RecordIds :
            Record(i).key = KeyWord =>
                /\ ret.val.tag = "pair"
                /\ ret.val.x = PyFromU32(Record(i).value1)
                /\ ret.val.y = PyFromU32(Record(i).value2)

\* C2: for a key that is the key of no record, Get returns None without
\* raising and the subscript lookup fails with a KeyError carrying that key.
C2_AbsentKey ==
    (IsLookup /\ RecordsPresent /\ KeyInRange
        /\ \A i \in RecordIds : Record(i).key # KeyWord) =>
        /\ ret.op = "Get" => ret.val.tag = "None"
        /\ ret.op = "subscript" =>
              ret.val.tag = "KeyError" /\ ret.val.x = ret.key.v

\* C3: Length() is the number of records the region holds, and an iterator
\* of any of the five modes has yielded exactly Length() items when it
\* signals exhaustion.
C3_ExhaustionCount ==
    /\ Initialized =>
          /\ km.km_length >= 0
          /\ km.km_length * EntrySize <= Len(Strings[km.km_data]) - km.km_pos
    /\ (ret.op = "next" /\ ret.val = StopIteration
            /\ iters[ret.it].kmi_mode \in ValidModes) =>
          iters[ret.it].yielded = km.km_length

\* C4: Initialize fails with ValueError when the buffer has fewer than 4
\* bytes, when offset > length(buffer) - 4, and when the prefix N read at
\* offset exceeds the bytes after it; in the last case the message holds N.
C4_BufferTooShort ==
    ret.op = "Initialize" =>
        LET size == Len(Strings[ret.s])
            N    == ReadInt32(ret.s, ret.off, 0)
        IN  /\ (size < 4 \/ ret.off > size - 4) => ret.val.tag = "ValueError"
            /\ (InBounds(ret.s, ret.off, 4) /\ size - ret.off - 4 < N) =>
                  /\ ret.val.tag = "ValueError"
                  /\ ret.val.msg = "Not enough data in buffer, expected %d bytes"
                  /\ ret.val.x = PyFromInt(N)

\* C5: a lookup with a key that is no integer, or an integer outside
\* 0 .. 2^32 - 1, fails with ValueError; the key is never wrapped and looked up.
C5_InvalidKeyType ==
    (IsLookup /\ ~KeyInRange) => ret.val.tag = "ValueError"

\* C6 as stated: an iterator made by _iterspecial with a mode outside 0..4
\* fails with RuntimeError on every Next() call.
C6_EveryNextFails ==
    (ret.op = "next" /\ iters[ret.it].arg \notin { << 0, 0, m >> : m \in ValidModes }) =>
        ret.val.tag = "RuntimeError"

\* C6 amended: an iterator whose stored mode is outside 0..4 never yields a
\* value.  A Next() call made with 0 <= index < km_length fails with
\* RuntimeError naming the mode and advances the index by one; a Next() call
\* made with index >= km_length signals plain exhaustion and leaves the
\* index alone.
C6_NextOfInvalidMode ==
    [][ ret'.op = "next" =>
          LET self == iters[ret'.it]
          IN  self.kmi_mode \notin ValidModes =>
                IF self.kmi_index >= 0 /\ self.kmi_index < km.km_length
                THEN /\ ret'.val = RuntimeError(PyFromInt(self.kmi_mode))
                     /\ iters'[ret'.it].kmi_index = self.kmi_index + 1
                ELSE /\ ret'.val = StopIteration
                     /\ iters'[ret'.it].kmi_index = self.kmi_index ]_vars

\* an iterator of invalid mode has failed on every record of a table that
\* has records and then signalled exhaustion
C6_Witness ==
    /\ ret.op = "next" /\ ret.val = StopIteration
    /\ iters[ret.it].kmi_mode \notin ValidModes
    /\ km.km_length > 0
    /\ iters[ret.it].kmi_index = km.km_length
    /\ iters[ret.it].yielded = 0

\* C7: the string whose bytes the table borrows holds a reference of the
\* table while the table exists, and once the table is deallocated it holds
\* no reference on any string.
C7_BufferReferences ==
    /\ (km.alive /\ km.km_data # NULL) => strRefs[km.km_data] >= 1
    /\ ~km.alive => \A s \in StrIds : strRefs[s] = 0

\* C8: once an Initialize has succeeded, no operation changes the record
\* count or the record slice of the table.
C8_Immutable ==
    [][ Initialized =>
          /\ km'.km_data = km.km_data
          /\ km'.km_pos = km.km_pos
          /\ km'.km_length = km.km_length ]_vars

\* the projection of a record that each mode is documented to yield
Projected(m, e) ==
    CASE m = 0 -> PyLong(PyFromU32(e.key))
      [] m = 1 -> PyPair(PyFromU32(e.value1), PyFromU32(e.value2), FALSE)
      [] m = 2 -> PyItem(PyFromU32(e.key), PyFromU32(e.value1), PyFromU32(e.value2))
      [] m = 3 -> PyLong(PyFromU32(e.value1))
      [] m = 4 -> PyPair(PyFromU32(e.key), PyFromU32(e.value1), FALSE)

\* C9: an iterator of mode 0..4 starts at index 0; Next() at index i < N
\* returns the projection of record i and leaves the index at i + 1; Next() at
\* index >= N signals exhaustion and leaves the index alone; the index never
\* decreases and never exceeds N; iter(table) is the same as IterKeys.
C9_Iteration ==
    [][ /\ \A i \in IterIds :
              /\ (~iters[i].alive /\ iters'[i].alive) => iters'[i].kmi_index = 0
              /\ (iters[i].alive /\ iters'[i].alive) =>
                    iters'[i].kmi_index >= iters[i].kmi_index
              /\ (iters'[i].alive /\ iters'[i].kmi_mode \in ValidModes) =>
                    iters'[i].kmi_index <= km'.km_length
        /\ ret'.op = "iter" => iters'[ret'.it].kmi_mode = 0
        /\ ret'.op = "next" =>
              LET self == iters[ret'.it]
              IN  self.kmi_mode \in ValidModes =>
                    IF self.kmi_index >= km.km_length
                    THEN /\ ret'.val = StopIteration
                         /\ iters'[ret'.it].kmi_index = self.kmi_index
                    ELSE /\ EntryInBounds(km.km_data, km.km_pos, self.kmi_index)
                         /\ ret'.val = Projected(self.kmi_mode, Record(self.kmi_index))
                         /\ iters'[ret'.it].kmi_index = self.kmi_index + 1 ]_vars

\* C10: after a successful Initialize every record 0 <= i < Length() lies
\* inside the buffer: its 12 bytes start at or after byte 0 and end before
\* length(buffer).
C10_RecordsInsideBuffer ==
    Initialized =>
        \A i \in RecordIds :
            /\ km.km_pos + EntrySize * i >= 0
            /\ km.km_pos + EntrySize * i + 11 < Len(Strings[km.km_data])

====
